---- MODULE Spec2Model ----
(***************************************************************************)
(* Model of libjst: the inline sequence journal                            *)
(* (libjst/journal/inline_sequence_journal.hpp) and the traversal of the   *)
(* journaled sequence tree that enumerates the contexts of a collection.   *)
(*                                                                         *)
(* A journal is a vector of records (position, sequence) over a source.   *)
(* Records are indexed 1..Len(journal) here (the C++ vector is 0-based);   *)
(* positions and symbol offsets are 0-based as in the code.  A segment is  *)
(* modelled by the symbols it refers to.                                   *)
(*                                                                         *)
(* The sequence tree, its adaptors and the traverser are modelled from     *)
(* their specification (sections 3, 4.4 to 4.7): the sources of that part  *)
(* are not among the files of the repository at hand.                      *)
(***************************************************************************)
EXTENDS Integers, Sequences, FiniteSets, TLC

VARIABLES
    source,     \* inline_sequence_journal::_source
    journal,    \* inline_sequence_journal::_journal
    call,       \* the last member function called, its arguments and result
    reference,  \* the reference sequence S of the tree
    variants,   \* the variant store V in canonical order
    window,     \* the window (context) size k
    node,       \* the node the traverser's handle is at
    stack,      \* the DFS stack: the alternate children still to visit
    emitted,    \* the cargos emitted so far
    visited,    \* the nodes the handle has been at, in order
    finished,   \* the cargos of the traversals of this tree that ended earlier
    tpc         \* "idle", "begin" (before begin()), "walk", "end" (handle = end())

jvars == <<source, journal, call>>

tvars == <<reference, variants, window, node, stack, emitted, visited, finished, tpc>>

vars == <<source, journal, call, reference, variants, window, node, stack, emitted,
          visited, finished, tpc>>

----------------------------------------------------------------------------
(* Bounds of the model *)

MaxSourceLen == 2      \* longest source sequence
MaxDerivedLen == 3     \* record is not called when the result would be longer
MaxRecords == 4        \* record is not called when the vector would be longer

(* size_type is an unsigned integer type; the model keeps 16 of its bits. *)
SizeTypeModulus == 2 ^ 16

ToSizeType(x) == x % SizeTypeModulus

----------------------------------------------------------------------------
(* Inputs *)

\* source sequences: prefixes of 1,2,3 (pairwise distinct symbols)
Sources == { [i \in 1..n |-> i] : n \in 0..MaxSourceLen }

\* recorded sequences: the empty one, and one of a symbol that occurs in no source
Alts == { <<>>, <<7>> }

----------------------------------------------------------------------------
(* record_impl *)

record_impl(position, sequence) == [position |-> position, sequence |-> sequence]

\* std::ranges::subrange [from, to) of a segment, 0-based offsets
get_breakpoint_slice(segment, from, to) == SubSeq(segment, from + 1, to)

(* breakend_impl: (journal iterator, sequence iterator), the sequence      *)
(* iterator given as its distance from the begin of the record's segment. *)
breakend_impl(journal_it, sequence_it) == [rec |-> journal_it, off |-> sequence_it]

\* breakend_impl::operator integral_t
ToOffset(j, breakend) == j[breakend.rec].position + breakend.off

\* operator-(breakend, breakend) as used by libjst::breakend_span
breakend_span(j, breakpoint) == ToOffset(j, breakpoint[2]) - ToOffset(j, breakpoint[1])

----------------------------------------------------------------------------
(* Observers *)

Last(j) == j[Len(j)]

begin(j) == 1

end(j) == Len(j)       \* _journal.end() - 1: the sentinel

\* as size, the sentinel counted
size_with_sentinel(j) == Len(j)

size(j) == Len(j) - 1

empty(j) == size(j) = 0

RECURSIVE Concat(_, _)
\* concatenation of the segments of the first n records
Concat(j, n) == IF n = 0 THEN <<>> ELSE Concat(j, n - 1) \o j[n].sequence

\* the derived sequence: what iterating all segments yields
Derived(j) == Concat(j, Len(j))

----------------------------------------------------------------------------
(* initialize_journal *)

\* as initialize_journal, the sentinel placed at position 0
initialize_journal_sentinel_at_zero(src) ==
    (IF src # <<>> THEN <<record_impl(0, src)>> ELSE <<>>)
        \o <<record_impl(0, <<>>)>>

\* as initialize_journal, the first record beginning one symbol late
initialize_journal_slice_late(src) ==
    (IF src # <<>> THEN <<record_impl(0, SubSeq(src, 2, Len(src)))>> ELSE <<>>)
        \o <<record_impl(Len(src), <<>>)>>

\* as initialize_journal, a first record also for an empty source
initialize_journal_always_segment(src) ==
    <<record_impl(0, src), record_impl(Len(src), <<>>)>>

initialize_journal(src) ==
    (IF src # <<>> THEN <<record_impl(0, src)>> ELSE <<>>)
        \o <<record_impl(Len(src), <<>>)>>

----------------------------------------------------------------------------
(* record_inline and its helpers *)

\* as split_at, the suffix beginning one symbol late
split_at_suffix_late(j, breakend) ==
    LET segment == j[breakend.rec].sequence
        split_offset == breakend.off
        record_prefix == record_impl(j[breakend.rec].position,
                                     get_breakpoint_slice(segment, 0, split_offset))
        record_suffix == record_impl(j[breakend.rec].position + split_offset,
                                     get_breakpoint_slice(segment, split_offset + 1, Len(segment)))
    IN  <<record_prefix, record_suffix>>

\* as split_at, the prefix always the whole segment
split_at_prefix_whole(j, breakend) ==
    LET segment == j[breakend.rec].sequence
        split_offset == breakend.off
        record_prefix == record_impl(j[breakend.rec].position, segment)
        record_suffix == record_impl(j[breakend.rec].position + split_offset,
                                     get_breakpoint_slice(segment, split_offset, Len(segment)))
    IN  <<record_prefix, record_suffix>>

split_at(j, breakend) ==
    LET segment == j[breakend.rec].sequence
        split_offset == breakend.off
        record_prefix == record_impl(j[breakend.rec].position,
                                     get_breakpoint_slice(segment, 0, split_offset))
        record_suffix == record_impl(j[breakend.rec].position + split_offset,
                                     get_breakpoint_slice(segment, split_offset, Len(segment)))
    IN  <<record_prefix, record_suffix>>

\* as force_overwrite_through, the record left as it was
force_overwrite_through_skipped(j, it, record) == j

force_overwrite_through(j, it, record) ==
    [out_it \in 1..Len(j) |-> IF out_it = it THEN record ELSE j[out_it]]

\* std::vector::erase(first, last): removes [first, last)
vector_erase(j, first, last) == SubSeq(j, 1, first - 1) \o SubSeq(j, last, Len(j))

\* std::vector::insert(pos, entries): inserts before pos
vector_insert(j, pos, entries) == SubSeq(j, 1, pos - 1) \o entries \o SubSeq(j, pos, Len(j))

\* as update_positions_of_remaining_entries, beginning one entry late
update_positions_after_first(j, journal_it, offset) ==
    IF offset = 0
        THEN j
        ELSE [i \in 1..Len(j) |->
                IF i > journal_it
                    THEN record_impl(ToSizeType(j[i].position + offset), j[i].sequence)
                    ELSE j[i]]

\* as update_positions_of_remaining_entries, every record of the journal rewritten
update_positions_of_all_entries(j, journal_it, offset) ==
    IF offset = 0
        THEN j
        ELSE [i \in 1..Len(j) |->
                record_impl(ToSizeType(j[i].position + offset), j[i].sequence)]

\* as update_positions_of_remaining_entries, the last record left as it is
update_positions_without_last(j, journal_it, offset) ==
    IF offset = 0
        THEN j
        ELSE [i \in 1..Len(j) |->
                IF i >= journal_it /\ i < Len(j)
                    THEN record_impl(ToSizeType(j[i].position + offset), j[i].sequence)
                    ELSE j[i]]

update_positions_of_remaining_entries(j, journal_it, offset) ==
    IF offset = 0
        THEN j
        ELSE [i \in 1..Len(j) |->
                IF i >= journal_it
                    THEN record_impl(ToSizeType(j[i].position + offset), j[i].sequence)
                    ELSE j[i]]

\* as entries_marked_for_insertion, the prefix of the split record not kept
entries_marked_without_prefix(j, breakpoint, new_sequence) ==
    LET low == split_at(j, breakpoint[1])
    IN  IF Len(new_sequence) > 0
            THEN <<record_impl(low[2].position, new_sequence)>>
            ELSE <<>>

\* as entries_marked_for_insertion, the prefix of the split record kept also when empty
entries_marked_with_empty_prefix(j, breakpoint, new_sequence) ==
    LET low == split_at(j, breakpoint[1])
    IN  <<low[1]>>
            \o (IF Len(new_sequence) > 0
                    THEN <<record_impl(low[2].position, new_sequence)>>
                    ELSE <<>>)

entries_marked_for_insertion(j, breakpoint, new_sequence) ==
    LET low == split_at(j, breakpoint[1])
    IN  (IF low[1].sequence # <<>> THEN <<low[1]>> ELSE <<>>)
            \o (IF Len(new_sequence) > 0
                    THEN <<record_impl(low[2].position, new_sequence)>>
                    ELSE <<>>)

\* the journal after record_inline(breakpoint, new_sequence)
record_inline(j, breakpoint, new_sequence) ==
    LET deletion_size == breakend_span(j, breakpoint)
        insertion_size == Len(new_sequence)
        entries == entries_marked_for_insertion(j, breakpoint, new_sequence)
        marked_insert_entries == Len(entries)
        high == split_at(j, breakpoint[2])
        from_journal_it == breakpoint[1].rec
        to_journal_it == breakpoint[2].rec
        overwritten == force_overwrite_through(j, to_journal_it, high[2])
        erased == vector_erase(overwritten, from_journal_it, to_journal_it)
        insert_position == from_journal_it
        inserted == vector_insert(erased, insert_position, entries)
        first_inserted == insert_position
    IN  update_positions_of_remaining_entries(inserted,
                                              first_inserted + marked_insert_entries,
                                              insertion_size - deletion_size)

\* the iterator record_inline returns (an index into the new journal)
record_result(j, breakpoint, new_sequence) ==
    LET marked_insert_entries == Len(entries_marked_for_insertion(j, breakpoint, new_sequence))
        first_inserted == breakpoint[1].rec
    IN  first_inserted + marked_insert_entries - (IF Len(new_sequence) > 0 THEN 1 ELSE 0)

\* bool check_journal_invariants()
check_journal_invariants(j) ==
    /\ Len(j) # 0
    /\ j[1].position = 0
    /\ \A it \in begin(j)..(end(j) - 1) :
          j[it].position + Len(j[it].sequence) = j[it + 1].position

----------------------------------------------------------------------------
(* Breakends and breakpoints of a journal *)

\* every (record, symbol iterator) pair with the iterator in [begin, end] of the segment
Breakends(j) ==
    { breakend_impl(r, o) : <<r, o>> \in
        { p \in (1..Len(j)) \X (0..MaxDerivedLen) : p[2] <= Len(j[p[1]].sequence) } }

\* low breakend's record not after the high breakend's record, low offset <= high offset
Breakpoints(j) ==
    { bp \in Breakends(j) \X Breakends(j) :
        /\ bp[1].rec <= bp[2].rec
        /\ ToOffset(j, bp[1]) <= ToOffset(j, bp[2]) }

\* both breakends in the same record, the high one before the low one
ReversedBreakpoints(j) ==
    { bp \in Breakends(j) \X Breakends(j) :
        /\ bp[1].rec = bp[2].rec
        /\ bp[1].off > bp[2].off }

----------------------------------------------------------------------------
(* State machine *)

(* call: op is the member function; low, high and sequence are the         *)
(* arguments of record; lo and hi are the linear offsets of the two        *)
(* breakends when record was called; ret is the returned iterator; net is  *)
(* the sum of |sequence| - span over the record calls since the journal    *)
(* was initialised.                                                        *)
NoCall == [op |-> "new", low |-> breakend_impl(1, 0), high |-> breakend_impl(1, 0),
           sequence |-> <<>>, lo |-> 0, hi |-> 0, ret |-> 1, net |-> 0]

\* inline_sequence_journal(source)
JournalInit ==
    /\ source \in Sources
    /\ journal = initialize_journal(source)
    /\ call = NoCall

DoRecord(bp, alt) ==
    /\ Len(Derived(journal)) + Len(alt) - breakend_span(journal, bp) <= MaxDerivedLen
    /\ Len(record_inline(journal, bp, alt)) <= MaxRecords
    /\ journal' = record_inline(journal, bp, alt)
    /\ call' = [op |-> "record", low |-> bp[1], high |-> bp[2], sequence |-> alt,
                lo |-> ToOffset(journal, bp[1]), hi |-> ToOffset(journal, bp[2]),
                ret |-> record_result(journal, bp, alt),
                net |-> call.net + Len(alt) - breakend_span(journal, bp)]
    /\ UNCHANGED source
    /\ UNCHANGED tvars

\* record(breakpoint, sequence) with a breakpoint of the journal
Record ==
    \E bp \in Breakpoints(journal), alt \in Alts : DoRecord(bp, alt)

\* record(breakpoint, sequence) with the high breakend before the low breakend
RecordReversed ==
    \E bp \in ReversedBreakpoints(journal), alt \in Alts : DoRecord(bp, alt)

\* as Clear, the source cleared with the journal
ClearWithSource ==
    /\ source' = <<>>
    /\ journal' = initialize_journal(<<>>)
    /\ call' = [NoCall EXCEPT !.op = "clear"]
    /\ UNCHANGED tvars

\* as Clear, the records not removed before the journal is initialised
ClearAppends ==
    /\ journal' = journal \o initialize_journal(source)
    /\ call' = [NoCall EXCEPT !.op = "clear"]
    /\ UNCHANGED source
    /\ UNCHANGED tvars

\* clear()
Clear ==
    /\ journal' = initialize_journal(source)
    /\ call' = [NoCall EXCEPT !.op = "clear"]
    /\ UNCHANGED source
    /\ UNCHANGED tvars

----------------------------------------------------------------------------
(* Journaled sequence tree: data model (specification section 3)           *)

NumSeqs == 2           \* N: number of sequences of the collection
MaxRefLen == 2         \* longest reference sequence
MaxVariants == 1       \* largest variant store
MaxWindow == 2         \* largest window size k
MaxRuns == 2           \* most traversals of one tree, one after the other
MaxOverlappingLen == 6 \* longest reference of the fixture substitution_overlapping
MaxEvents == 2         \* most events inserted into a store one by one

\* symbols are numbers: 1 is the reference symbol a, 2 and 3 are b and c
RefSymbol == 1
AltSymbols == {2, 3}

AllSeqs == 1..NumSeqs

(* Coverage: the set of sequences whose bit is set. *)
\* as coverage_intersection, the second coverage returned as it is
coverage_intersection_second(c1, c2) == c2

coverage_intersection(c1, c2) == c1 \cap c2

\* as coverage_difference, the first coverage returned as it is
coverage_difference_first(c1, c2) == c1

\* as coverage_difference, the second coverage without the first
coverage_difference_reversed(c1, c2) == c2 \ c1

coverage_difference(c1, c2) == c1 \ c2

\* the sequences of the domain that are not in c
coverage_complement(c) == AllSeqs \ c

coverage_union(c1, c2) == c1 \cup c2

\* every coverage of the domain, the empty one included
Bitmaps == SUBSET AllSeqs

Coverages == (SUBSET AllSeqs) \ {{}}

(* A symbol of a label carries its byte and where it comes from:           *)
(* <<0, p>> is position p of the reference, <<v, o>> is offset o of the    *)
(* alt of the v-th variant.  The origins of a window are its coordinate.   *)
Symbol(byte, origin) == [byte |-> byte, origin |-> origin]

BytesOf(label) == [i \in 1..Len(label) |-> label[i].byte]

OriginsOf(label) == [i \in 1..Len(label) |-> label[i].origin]

\* slice(S, [from, to)) of the reference
RefSlice(S, from, to) ==
    [i \in 1..(to - from) |-> Symbol(S[from + i], <<0, from + i - 1>>)]

\* the alt of the v-th variant
AltLabel(V, v) ==
    [i \in 1..Len(V[v].alt) |-> Symbol(V[v].alt[i], <<v, i - 1>>)]

Variant(lo, hi, alt, cov) == [lo |-> lo, hi |-> hi, alt |-> alt, cov |-> cov]

span(v) == v.hi - v.lo

IsInsertion(v) == span(v) = 0

\* lexicographic order of two alts
LexLess(a, b) ==
    \E n \in 0..Len(b) - 1 :
        /\ n <= Len(a)
        /\ SubSeq(a, 1, n) = SubSeq(b, 1, n)
        /\ (n = Len(a) \/ a[n + 1] < b[n + 1])

\* canonical order: low breakend, insertions first, span, alt
CanonicalLess(v, w) ==
    \/ v.lo < w.lo
    \/ /\ v.lo = w.lo
       /\ \/ IsInsertion(v) /\ ~ IsInsertion(w)
          \/ /\ IsInsertion(v) = IsInsertion(w)
             /\ \/ span(v) < span(w)
                \/ span(v) = span(w) /\ LexLess(v.alt, w.alt)

\* the variants that can be stated on a reference of length n:
\* insertions, deletions and substitutions with lo <= hi <= n, no empty edit
VariantUniverse(n) ==
    { Variant(lo, lo, <<a>>, c) : lo \in 0..n, a \in AltSymbols, c \in Coverages }
        \cup UNION { { Variant(lo, hi, <<>>, c) : hi \in (lo + 1)..n, c \in Coverages } :
                      lo \in 0..(n - 1) }
        \cup { Variant(lo, lo + 1, <<2>>, c) : lo \in 0..(n - 1), c \in Coverages }

RECURSIVE StoresOfSize(_, _)
\* the stores of m variants on a reference of length n, in canonical order
StoresOfSize(n, m) ==
    IF m = 0
        THEN { <<>> }
        ELSE UNION { { Append(V, v) : v \in { w \in VariantUniverse(n) :
                                                V # <<>> => CanonicalLess(V[Len(V)], w) } } :
                     V \in StoresOfSize(n, m - 1) }

\* variant stores: in canonical order, no duplicate record, hi <= |S|, no empty edit
VariantStores(n) == UNION { StoresOfSize(n, m) : m \in 0..MaxVariants }

References == { [i \in 1..n |-> RefSymbol] : n \in 0..MaxRefLen }

\* the events of the fixture substitution_overlapping, b for [0,1) and c for [2,3),
\* on the sequences c1 and c2
substitution_overlapping(c1, c2) ==
    << Variant(0, 1, <<2>>, c1), Variant(2, 3, <<3>>, c2) >>

\* the number of events of the fixtures with two shared events
PairSize == 2

\* the stores of two events on a reference of length n
EventPairs(n) == StoresOfSize(n, PairSize)

----------------------------------------------------------------------------
(* The derived sequences: sequence_at(i) is the reference with the         *)
(* variants applied whose coverage contains i, recorded in a journal.      *)

\* the breakend of position p of the derived sequence of j
BreakendAt(j, p) ==
    IF p >= Last(j).position
        THEN breakend_impl(Len(j), 0)
        ELSE LET r == CHOOSE r \in 1..(Len(j) - 1) :
                        /\ j[r].position <= p
                        /\ p < j[r].position + Len(j[r].sequence)
             IN  breakend_impl(r, p - j[r].position)

\* record(bp, alt) of the n-th variant of V in journal j
RecordVariant(j, V, n) ==
    record_inline(j, <<BreakendAt(j, V[n].lo), BreakendAt(j, V[n].hi)>>, AltLabel(V, n))

RECURSIVE RecordVariants(_, _, _, _)
(* the journal of S with the variants n, n+1, .., |V| of V recorded that   *)
(* cover sequence i, the last one first                                    *)
RecordVariants(S, V, n, i) ==
    IF n > Len(V)
        THEN initialize_journal(RefSlice(S, 0, Len(S)))
        ELSE LET j == RecordVariants(S, V, n + 1, i)
             IN  IF i \in V[n].cov THEN RecordVariant(j, V, n) ELSE j

sequence_at(S, V, i) == Derived(RecordVariants(S, V, 1, i))

\* the variants covering sequence i do not overlap and no two insert at the same position
ConflictFree(V, i) ==
    \A m \in 1..Len(V), n \in 1..Len(V) :
        (m < n /\ i \in V[m].cov /\ i \in V[n].cov) =>
            /\ V[m].hi <= V[n].lo
            /\ ~ (IsInsertion(V[m]) /\ IsInsertion(V[n]) /\ V[m].lo = V[n].lo)

----------------------------------------------------------------------------
(* Construction of a journaled sequence tree: events are inserted into the *)
(* store one by one, then sequence_at(i) is asked for                      *)

\* the events inserted: on the first sequence only, or on all sequences
EventCoverages == { {1}, AllSeqs }

Events(n) == { v \in VariantUniverse(n) : v.cov \in EventCoverages }

\* as insert, the event appended at the end of the store
insert_at_end(V, v) ==
    IF \E i \in 1..Len(V) : V[i] = v THEN V ELSE Append(V, v)

\* insert(v): v is put behind the events that are not after it in canonical
\* order; an event already in the store is rejected
insert(V, v) ==
    IF \E i \in 1..Len(V) : V[i] = v
        THEN V
        ELSE LET p == Cardinality({ i \in 1..Len(V) : ~ CanonicalLess(v, V[i]) })
             IN  [i \in 1..(Len(V) + 1) |->
                    IF i <= p THEN V[i] ELSE IF i = p + 1 THEN v ELSE V[i - 1]]

\* the number of sequences of the tree
jst_size(S, V) == NumSeqs

StoreInit ==
    /\ reference \in References
    /\ variants = <<>>
    /\ window = 1
    /\ node = [pos |-> 0, idx |-> 1, cov |-> {}, ctx |-> <<>>, label |-> <<>>]
    /\ stack = <<>>
    /\ emitted = <<>>
    /\ visited = <<>>
    /\ finished = <<>>
    /\ tpc = "idle"

\* jst.insert(event)
Insert ==
    /\ call.op \in {"new", "insert"}
    /\ \E v \in Events(Len(reference)) :
          /\ Len(insert(variants, v)) <= MaxEvents
          /\ variants' = insert(variants, v)
          /\ call' = [op |-> "insert", event |-> v, before |-> variants]
    /\ UNCHANGED <<source, journal>>
    /\ UNCHANGED <<reference, window, node, stack, emitted, visited, finished, tpc>>

\* jst.sequence_at(i): the journal of the i-th sequence
SequenceAt ==
    /\ call.op \in {"new", "insert"}
    /\ \E i \in 1..jst_size(reference, variants) :
          /\ ConflictFree(variants, i)
          /\ source' = RefSlice(reference, 0, Len(reference))
          /\ journal' = RecordVariants(reference, variants, 1, i)
          /\ call' = [op |-> "sequence_at", i |-> i]
    /\ UNCHANGED tvars

----------------------------------------------------------------------------
(* Breakpoint sequence tree (section 4.5) with coverage and labels         *)

\* as NextEnterable, a further insertion at the position of v not passed over
NextEnterableBehind(V, idx, v) ==
    IF \E i \in idx..Len(V) : V[i].lo >= v.hi
        THEN CHOOSE i \in idx..Len(V) :
                /\ V[i].lo >= v.hi
                /\ \A t \in idx..(i - 1) : V[t].lo < v.hi
        ELSE Len(V) + 1

\* as NextEnterable, no variant passed over
NextEnterableAny(V, idx, v) == idx

RECURSIVE NextEnterable(_, _, _)
(* the first variant from index idx on that can be entered after variant   *)
(* v was taken: it begins at or after hi(v), and it is not another         *)
(* insertion at the position where v inserted.                             *)
NextEnterable(V, idx, v) ==
    IF idx > Len(V)
        THEN idx
        ELSE IF \/ V[idx].lo < v.hi
                \/ IsInsertion(v) /\ IsInsertion(V[idx]) /\ V[idx].lo = v.lo
            THEN NextEnterable(V, idx + 1, v)
            ELSE idx

\* where the reference run of a node ends: at the next variant or at the end of S
RunEnd(S, V, idx) == IF idx <= Len(V) THEN V[idx].lo ELSE Len(S)

\* the last n symbols of a label
Suffix(label, n) ==
    IF Len(label) <= n THEN label ELSE SubSeq(label, Len(label) - n + 1, Len(label))

(* A node: pos is the position on S after its label, idx the variant it    *)
(* branches on (none when idx > |V|), cov its path coverage, ctx the last  *)
(* k-1 symbols of the path before its label (left extension), label the   *)
(* symbols spelled on the edge into it.                                    *)
Node(pos, idx, cov, ctx, label) ==
    [pos |-> pos, idx |-> idx, cov |-> cov, ctx |-> ctx, label |-> label]

root(S, V) ==
    Node(RunEnd(S, V, 1), 1, AllSeqs, <<>>, RefSlice(S, 0, RunEnd(S, V, 1)))

is_sink(V, n) == n.idx > Len(V)

\* left_extend(k - 1): the context a child inherits
ChildContext(n, k) == Suffix(n.ctx \o n.label, k - 1)

\* as reference_child, the coverage not narrowed
reference_child_keeps_coverage(S, V, k, n) ==
    Node(RunEnd(S, V, n.idx + 1),
         n.idx + 1,
         n.cov,
         ChildContext(n, k),
         RefSlice(S, n.pos, RunEnd(S, V, n.idx + 1)))

\* reference edge: stay on S, coverage without the sequences that take the variant
reference_child(S, V, k, n) ==
    Node(RunEnd(S, V, n.idx + 1),
         n.idx + 1,
         coverage_difference(n.cov, V[n.idx].cov),
         ChildContext(n, k),
         RefSlice(S, n.pos, RunEnd(S, V, n.idx + 1)))

\* as alternate_child, the coverage not narrowed to the sequences of the variant
alternate_child_keeps_coverage(S, V, k, n) ==
    LET v == V[n.idx]
        next == NextEnterable(V, n.idx + 1, v)
    IN  Node(RunEnd(S, V, next),
             next,
             n.cov,
             ChildContext(n, k),
             AltLabel(V, n.idx) \o RefSlice(S, v.hi, RunEnd(S, V, next)))

\* alternate edge: spell alt(v), resume on S at hi(v)
alternate_child(S, V, k, n) ==
    LET v == V[n.idx]
        next == NextEnterable(V, n.idx + 1, v)
    IN  Node(RunEnd(S, V, next),
             next,
             coverage_intersection(n.cov, v.cov),
             ChildContext(n, k),
             AltLabel(V, n.idx) \o RefSlice(S, v.hi, RunEnd(S, V, next)))

\* prune: an edge exists only if some sequence supports it
has_reference_child(V, n) ==
    ~ is_sink(V, n) /\ coverage_difference(n.cov, V[n.idx].cov) # {}

\* as has_alternate_child, the edge kept only if every sequence of the path takes it
has_alternate_child_if_all(V, n) ==
    ~ is_sink(V, n) /\ coverage_difference(n.cov, V[n.idx].cov) = {}

has_alternate_child(V, n) ==
    ~ is_sink(V, n) /\ coverage_intersection(n.cov, V[n.idx].cov) # {}

----------------------------------------------------------------------------
(* Cargo of a node: the windows of size k that end in its label            *)

Cargo(sequence, coordinate, coverage) ==
    [sequence |-> sequence, coordinate |-> coordinate, coverage |-> coverage]

\* as Windows, the windows at the begin of a path not trimmed: they may be shorter than k
WindowsUntrimmed(n, k) ==
    LET path == n.ctx \o n.label
        first == Len(n.ctx) + 1
        count == Len(path) - first + 1
    IN  [w \in 1..count |->
            SubSeq(path, IF first + w - k < 1 THEN 1 ELSE first + w - k, first + w - 1)]

\* the windows of size k ending in the label of n, in order
Windows(n, k) ==
    LET path == n.ctx \o n.label
        first == IF Len(n.ctx) + 1 > k THEN Len(n.ctx) + 1 ELSE k
        count == IF Len(path) >= first THEN Len(path) - first + 1 ELSE 0
    IN  [w \in 1..count |-> SubSeq(path, first + w - k, first + w - 1)]

\* as merge_one, every window emitted anew
merge_one_always_appends(out, w, cov) ==
    Append(out, Cargo(BytesOf(w), OriginsOf(w), cov))

\* as merge_one, the coverage of a context already emitted left as it is
merge_one_keeps_coverage(out, w, cov) ==
    IF \E e \in 1..Len(out) : out[e].coordinate = OriginsOf(w)
        THEN out
        ELSE Append(out, Cargo(BytesOf(w), OriginsOf(w), cov))

\* merge: a context already emitted is not emitted again, its coverage is united
merge_one(out, w, cov) ==
    IF \E e \in 1..Len(out) : out[e].coordinate = OriginsOf(w)
        THEN [e \in 1..Len(out) |->
                IF out[e].coordinate = OriginsOf(w)
                    THEN Cargo(out[e].sequence, out[e].coordinate, out[e].coverage \cup cov)
                    ELSE out[e]]
        ELSE Append(out, Cargo(BytesOf(w), OriginsOf(w), cov))

RECURSIVE merge(_, _, _, _)
\* merges the first m windows ws into out
merge(out, ws, m, cov) ==
    IF m = 0
        THEN out
        ELSE CHOOSE r \in { merge_one(o, ws[m], cov) : o \in { merge(out, ws, m - 1, cov) } } : TRUE

\* the emissions after the handle has arrived at node n
Emit(out, n, k) ==
    CHOOSE r \in { merge(out, ws, Len(ws), n.cov) : ws \in { Windows(n, k) } } : TRUE

----------------------------------------------------------------------------
(* Traverser (section 4.7): depth first, reference child before alternate  *)

NoNode == Node(0, 1, {}, <<>>, <<>>)

TreeIdle ==
    /\ reference = <<>>
    /\ variants = <<>>
    /\ window = 1
    /\ node = NoNode
    /\ stack = <<>>
    /\ emitted = <<>>
    /\ visited = <<>>
    /\ finished = <<>>
    /\ tpc = "idle"

TreeInit ==
    /\ reference \in References
    /\ variants \in VariantStores(Len(reference))
    /\ window \in 1..MaxWindow
    /\ node = NoNode
    /\ stack = <<>>
    /\ emitted = <<>>
    /\ visited = <<>>
    /\ finished = <<>>
    /\ tpc = "begin"

\* the handle arrives at node n (m is n, evaluated once)
Arrive(n) ==
    \E m \in { n } :
        /\ node' = m
        /\ emitted' = Emit(emitted, m, window)
        /\ visited' = Append(visited, m)
        /\ tpc' = "walk"
        /\ UNCHANGED <<reference, variants, window, finished>>
        /\ UNCHANGED jvars

\* begin(): the handle is at the root
Begin ==
    /\ tpc = "begin"
    /\ stack' = stack
    /\ Arrive(root(reference, variants))

\* as DescendReference, the alternate child descended first, the reference child remembered
DescendAlternateFirst ==
    /\ tpc = "walk"
    /\ has_reference_child(variants, node)
    /\ IF has_alternate_child(variants, node)
          THEN /\ stack' = Append(stack, reference_child(reference, variants, window, node))
               /\ Arrive(alternate_child(reference, variants, window, node))
          ELSE /\ stack' = stack
               /\ Arrive(reference_child(reference, variants, window, node))

\* as DescendReference, either child descended first
DescendEitherFirst ==
    /\ tpc = "walk"
    /\ has_reference_child(variants, node)
    /\ \/ /\ stack' = IF has_alternate_child(variants, node)
                          THEN Append(stack, alternate_child(reference, variants, window, node))
                          ELSE stack
          /\ Arrive(reference_child(reference, variants, window, node))
       \/ /\ has_alternate_child(variants, node)
          /\ stack' = Append(stack, reference_child(reference, variants, window, node))
          /\ Arrive(alternate_child(reference, variants, window, node))

\* ++it at a node with a reference child: descend it, remember the alternate child
DescendReference ==
    /\ tpc = "walk"
    /\ has_reference_child(variants, node)
    /\ stack' = IF has_alternate_child(variants, node)
                    THEN Append(stack, alternate_child(reference, variants, window, node))
                    ELSE stack
    /\ Arrive(reference_child(reference, variants, window, node))

\* ++it at a node that has only an alternate child
DescendAlternate ==
    /\ tpc = "walk"
    /\ ~ has_reference_child(variants, node)
    /\ has_alternate_child(variants, node)
    /\ stack' = stack
    /\ Arrive(alternate_child(reference, variants, window, node))

\* ++it at a sink with frames on the stack: ascend to the latest pending alternate
Ascend ==
    /\ tpc = "walk"
    /\ is_sink(variants, node)
    /\ stack # <<>>
    /\ stack' = SubSeq(stack, 1, Len(stack) - 1)
    /\ Arrive(stack[Len(stack)])

\* as End, the frames on the stack not looked at
EndIgnoresStack ==
    /\ tpc = "walk"
    /\ is_sink(variants, node)
    /\ tpc' = "end"
    /\ UNCHANGED <<reference, variants, window, node, stack, emitted, visited, finished>>
    /\ UNCHANGED jvars

\* ++it at a sink with an empty stack: the handle equals end()
End ==
    /\ tpc = "walk"
    /\ is_sink(variants, node)
    /\ stack = <<>>
    /\ tpc' = "end"
    /\ UNCHANGED <<reference, variants, window, node, stack, emitted, visited, finished>>
    /\ UNCHANGED jvars

\* a traverser over a tree of two events
TreeInitPairs ==
    /\ reference \in References
    /\ variants \in EventPairs(Len(reference))
    /\ window \in 1..MaxWindow
    /\ node = NoNode
    /\ stack = <<>>
    /\ emitted = <<>>
    /\ visited = <<>>
    /\ finished = <<>>
    /\ tpc = "begin"

\* a traverser over the tree of the fixture substitution_overlapping
TreeInitOverlapping ==
    /\ reference \in { [i \in 1..n |-> RefSymbol] : n \in 3..MaxOverlappingLen }
    /\ variants \in { substitution_overlapping(c1, c2) : c1 \in Coverages, c2 \in Coverages }
    /\ window \in 1..MaxWindow
    /\ node = NoNode
    /\ stack = <<>>
    /\ emitted = <<>>
    /\ visited = <<>>
    /\ finished = <<>>
    /\ tpc = "begin"

\* a further traverser is constructed on the same tree once the last one is at end()
Again ==
    /\ tpc = "end"
    /\ Len(finished) + 1 < MaxRuns
    /\ finished' = Append(finished, emitted)
    /\ emitted' = <<>>
    /\ visited' = <<>>
    /\ node' = NoNode
    /\ stack' = <<>>
    /\ tpc' = "begin"
    /\ UNCHANGED <<reference, variants, window>>
    /\ UNCHANGED jvars

----------------------------------------------------------------------------
(* Coverage operations applied to coverages of one domain; call holds the  *)
(* operation, its operands a and b, its result r, and the call before it   *)

CoverageCall(op, a, b, r) == [op |-> op, a |-> a, b |-> b, r |-> r]

\* the call with its own predecessor dropped
LastCall(c) == CoverageCall(c.op, c.a, c.b, c.r)

CoverageInit ==
    /\ source = <<>>
    /\ journal = initialize_journal(<<>>)
    /\ call \in { [op |-> "coverage", a |-> x, b |-> x, r |-> x,
                    last |-> CoverageCall("none", {}, {}, {})] : x \in Bitmaps }

Applied(op, a, b, r) ==
    /\ call' = [op |-> op, a |-> a, b |-> b, r |-> r, last |-> LastCall(call)]
    /\ UNCHANGED <<source, journal>>
    /\ UNCHANGED tvars

\* coverage_intersection(a, b)
Intersection ==
    \E a \in {call.a, call.r}, b \in Bitmaps :
        Applied("intersection", a, b, coverage_intersection(a, b))

\* coverage_difference(b, a)
Difference ==
    \E a \in {call.a, call.r}, b \in Bitmaps :
        Applied("difference", a, b, coverage_difference(b, a))

\* the union of a and b
Union ==
    \E a \in {call.a, call.r}, b \in Bitmaps :
        Applied("union", a, b, coverage_union(a, b))

\* the complement of a
Complement ==
    \E a \in {call.a, call.r} :
        Applied("complement", a, a, coverage_complement(a))

----------------------------------------------------------------------------
(* Specifications *)

JournalIdle ==
    /\ source = <<>>
    /\ journal = initialize_journal(<<>>)
    /\ call = NoCall

\* the journal under record calls with breakpoints of the journal, and clear
Init == JournalInit /\ TreeIdle

Next == Record \/ Clear

Spec == Init /\ [][Next]_vars

\* the journal when record is also called with reversed breakpoints
NextUnchecked == Record \/ RecordReversed \/ Clear

SpecUnchecked == Init /\ [][NextUnchecked]_vars

\* one traversal of the tree of a reference and a variant store
InitTree == JournalIdle /\ TreeInit

NextTree == Begin \/ DescendReference \/ DescendAlternate \/ Ascend \/ End

SpecTree == InitTree /\ [][NextTree]_vars

\* one traversal of the tree of a reference and two events
InitPairs == JournalIdle /\ TreeInitPairs

SpecPairs == InitPairs /\ [][NextTree]_vars

\* one traversal of the tree of the fixture substitution_overlapping
InitOverlapping == JournalIdle /\ TreeInitOverlapping

SpecOverlapping == InitOverlapping /\ [][NextTree]_vars

\* the construction of a tree: events inserted, then the sequences asked for
InitStore == JournalIdle /\ StoreInit

NextStore == Insert \/ SequenceAt

SpecStore == InitStore /\ [][NextStore]_vars

\* coverages of one domain under the coverage operations
InitCoverage == CoverageInit /\ TreeIdle

NextCoverage == Intersection \/ Difference \/ Union \/ Complement

SpecCoverage == InitCoverage /\ [][NextCoverage]_vars

\* several traversals of one tree, each by a traverser of its own
NextRuns == NextTree \/ Again

SpecRuns == InitTree /\ [][NextRuns]_vars

----------------------------------------------------------------------------
(* Properties of the journal *)

\* the first n symbols of d, and d without its first n symbols
Take(d, n) == SubSeq(d, 1, n)
Drop(d, n) == SubSeq(d, n + 1, Len(d))

(* C1: after any sequence of record calls on a new journal the first       *)
(* record starts at position 0 and every record up to the one before the   *)
(* sentinel ends where its successor starts.                               *)
C1_PositionsContiguous ==
    /\ journal[1].position = 0
    /\ \A i \in 1..(Len(journal) - 1) :
          journal[i + 1].position = journal[i].position + Len(journal[i].sequence)

\* a record call has left at least three records before the sentinel
C1_Witness ==
    /\ call.op = "record"
    /\ Len(journal) >= 4
    /\ call.net # 0

(* C2: record(bp, alt) on a journal with derived sequence D and breakend   *)
(* offsets lo <= hi makes the derived sequence D[0,lo) . alt . D[hi,|D|).  *)
C2_RecordSplices ==
    [][call'.op = "record" =>
        Derived(journal') = Take(Derived(journal), call'.lo)
                                \o call'.sequence
                                \o Drop(Derived(journal), call'.hi)]_vars

\* a substitution in the middle of the sequence whose breakends lie in different records
C2_Witness ==
    /\ call.op = "record"
    /\ call.low.rec < call.high.rec
    /\ call.sequence # <<>>
    /\ 0 < call.lo
    /\ call.lo < call.hi
    /\ call.lo + Len(call.sequence) < Len(Derived(journal))

(* C6: the last stored record is the sentinel: its segment is empty and    *)
(* its position is the length of the derived sequence, which is |S| plus   *)
(* the sum of |alt| - span over the applied edits.                         *)
C6_Sentinel ==
    /\ Last(journal).sequence = <<>>
    /\ Last(journal).position = Len(Derived(journal))
    /\ Last(journal).position = Len(source) + call.net

\* edits have changed the length and the sentinel is not where it started
C6_Witness ==
    /\ call.op = "record"
    /\ call.net # 0
    /\ Len(journal) >= 3
    /\ Last(journal).position # Len(source)

(* C7: no two adjacent records of the journal, the sentinel included,      *)
(* both have an empty segment.                                             *)
C7_NoAdjacentEmpty ==
    \A i \in 1..(Len(journal) - 1) :
        ~ (journal[i].sequence = <<>> /\ journal[i + 1].sequence = <<>>)

(* C8: record(bp, alt) with span(bp) = 0 and an empty alt leaves the list  *)
(* of records as it was.                                                   *)
C8_EmptyEditRejected ==
    [][(call'.op = "record" /\ call'.lo = call'.hi /\ call'.sequence = <<>>)
            => journal' = journal]_vars

(* C9: record called with the high breakend at a smaller offset than the   *)
(* low breakend leaves the journal unchanged.                              *)
C9_InvalidBreakpointRejected ==
    [][(call'.op = "record" /\ call'.hi < call'.lo) => journal' = journal]_vars

(* C10: record returns an iterator to a record that starts at the offset   *)
(* of the low breakend: the record holding alt when alt is not empty,      *)
(* otherwise the record after the erased region, which is end() when the   *)
(* edit reaches the end of the derived sequence.                           *)
C10_ReturnedIterator ==
    call.op = "record" =>
        /\ call.ret \in 1..Len(journal)
        /\ journal[call.ret].position = call.lo
        /\ call.sequence # <<>> => journal[call.ret].sequence = call.sequence
        /\ (call.sequence = <<>> /\ call.lo = Len(Derived(journal)))
                => call.ret = end(journal)

----------------------------------------------------------------------------
(* Properties of the traversal *)

\* the window of size k at position p (0-based) of a sequence
WindowAt(seq, p, k) == SubSeq(seq, p + 1, p + k)

\* the positions at which a sequence holds the symbols of a coordinate
sequence_positions_at(seq, coordinate) ==
    { p \in 0..(Len(seq) - Len(coordinate)) :
        OriginsOf(WindowAt(seq, p, Len(coordinate))) = coordinate }

(* C3: at the end of the traversal, for every derived sequence s and every *)
(* position p with p + k <= |s|, exactly one emission carries the window   *)
(* of s at p with s in its coverage.                                       *)
C3_Complete ==
    tpc = "end" =>
        \A i \in AllSeqs :
            ConflictFree(variants, i) =>
                LET s == sequence_at(reference, variants, i)
                IN  \A p \in 0..(Len(s) - window) :
                        Cardinality({ e \in 1..Len(emitted) :
                            /\ i \in emitted[e].coverage
                            /\ emitted[e].sequence = BytesOf(WindowAt(s, p, window))
                            /\ emitted[e].coordinate = OriginsOf(WindowAt(s, p, window)) }) = 1

\* a finished traversal in which a sequence with a variant applied has a window
C3_Witness ==
    /\ tpc = "end"
    /\ Len(emitted) >= 3
    /\ \E i \in AllSeqs :
          /\ ConflictFree(variants, i)
          /\ \E v \in 1..Len(variants) : i \in variants[v].cov
          /\ Len(sequence_at(reference, variants, i)) >= window

(* C4: every sequence in the coverage of an emission holds the emitted     *)
(* window at the position its coordinate resolves to.                      *)
C4_Sound ==
    \A e \in 1..Len(emitted) :
        /\ Len(emitted[e].sequence) = window
        /\ emitted[e].coverage # {}
        /\ \A i \in emitted[e].coverage :
              ConflictFree(variants, i) =>
                LET s == sequence_at(reference, variants, i)
                IN  /\ sequence_positions_at(s, emitted[e].coordinate) # {}
                    /\ \A p \in sequence_positions_at(s, emitted[e].coordinate) :
                          BytesOf(WindowAt(s, p, window)) = emitted[e].sequence

\* an emission on an alternate branch and an emission shared by all sequences
C4_Witness ==
    /\ \E e \in 1..Len(emitted) :
          /\ emitted[e].coverage # AllSeqs
          /\ \E n \in 1..window : emitted[e].coordinate[n][1] # 0
          /\ \A i \in emitted[e].coverage : ConflictFree(variants, i)
    /\ \E e \in 1..Len(emitted) : emitted[e].coverage = AllSeqs

----------------------------------------------------------------------------
(* Properties of the journal: construction *)

(* C11: a journal constructed from S with no edits has the derived         *)
(* sequence S, and its length is |S|.                                      *)
C11_JournalIdentity ==
    call.op = "new" =>
        /\ Derived(journal) = source
        /\ Len(Derived(journal)) = Len(source)
        /\ Last(journal).position = Len(source)

\* a journal just constructed from a source of two or more symbols
C11_Witness ==
    /\ call.op = "new"
    /\ Len(source) >= 2
    /\ Len(journal) = 2

----------------------------------------------------------------------------
(* Substitution and its inverse *)

\* the breakpoints of j that enclose the n symbols at offset lo
InverseBreakpoints(j, lo, n) ==
    { bp \in Breakpoints(j) :
        /\ ToOffset(j, bp[1]) = lo
        /\ ToOffset(j, bp[2]) = lo + n }

\* record(breakpoint, sequence) with span > 0 and a non-empty sequence;
\* before is the derived sequence when it was called
Substitute ==
    /\ call.op \in {"new", "record", "clear"}
    /\ \E bp \in Breakpoints(journal), alt \in Alts \ {<<>>} :
          /\ breakend_span(journal, bp) > 0
          /\ Len(Derived(journal)) + Len(alt) - breakend_span(journal, bp) <= MaxDerivedLen
          /\ Len(record_inline(journal, bp, alt)) <= MaxRecords
          /\ journal' = record_inline(journal, bp, alt)
          /\ call' = [op |-> "substitute", low |-> bp[1], high |-> bp[2], sequence |-> alt,
                      lo |-> ToOffset(journal, bp[1]), hi |-> ToOffset(journal, bp[2]),
                      ret |-> record_result(journal, bp, alt),
                      net |-> call.net + Len(alt) - breakend_span(journal, bp),
                      before |-> Derived(journal)]
    /\ UNCHANGED source
    /\ UNCHANGED tvars

\* the inverse of the substitution just recorded: record the replaced symbols
\* over the symbols that replaced them
Undo ==
    /\ call.op = "substitute"
    /\ \E bp \in InverseBreakpoints(journal, call.lo, Len(call.sequence)) :
          LET replaced == SubSeq(call.before, call.lo + 1, call.hi)
          IN  /\ journal' = record_inline(journal, bp, replaced)
              /\ call' = [op |-> "undo", low |-> bp[1], high |-> bp[2], sequence |-> replaced,
                          lo |-> ToOffset(journal, bp[1]), hi |-> ToOffset(journal, bp[2]),
                          ret |-> record_result(journal, bp, replaced),
                          net |-> call.net + Len(replaced) - breakend_span(journal, bp),
                          before |-> call.before]
    /\ UNCHANGED source
    /\ UNCHANGED tvars

\* record calls before a substitution and its inverse
RecordBefore == call.op \in {"new", "record", "clear"} /\ Record

NextUndo == RecordBefore \/ Substitute \/ Undo

\* the journal under record calls, then a substitution, then its inverse
SpecUndo == Init /\ [][NextUndo]_vars

(* C13: a substitution followed by its inverse restores the journal under  *)
(* P1: the derived sequence is the one before the substitution, the first  *)
(* position is 0 and adjacent positions are contiguous.                    *)
C13_EditUndo ==
    call.op = "undo" =>
        /\ Derived(journal) = call.before
        /\ check_journal_invariants(journal)

\* the inverse of a substitution in a journal of several records has been recorded
C13_Witness ==
    /\ call.op = "undo"
    /\ Len(call.before) >= 2
    /\ call.hi - call.lo = 1
    /\ Len(call.sequence) >= 1
    /\ Len(journal) >= 4

----------------------------------------------------------------------------
(* Lookup: lower_bound, upper_bound and find over the start positions of   *)
(* the records in [begin(), end())                                         *)

RECURSIVE lower_bound_search(_, _, _, _)
\* std::ranges::lower_bound with less and the projection position:
\* binary search in the count records beginning at first
lower_bound_search(j, first, count, key) ==
    IF count = 0
        THEN first
        ELSE LET step == count \div 2
                 it == first + step
             IN  IF j[it].position < key
                    THEN lower_bound_search(j, it + 1, count - step - 1, key)
                    ELSE lower_bound_search(j, first, step, key)

RECURSIVE upper_bound_search(_, _, _, _)
\* std::ranges::upper_bound with less and the projection position
upper_bound_search(j, first, count, key) ==
    IF count = 0
        THEN first
        ELSE LET step == count \div 2
                 it == first + step
             IN  IF ~ (key < j[it].position)
                    THEN upper_bound_search(j, it + 1, count - step - 1, key)
                    ELSE upper_bound_search(j, first, step, key)

\* as lower_bound, the first record whose position is greater than the key
lower_bound_greater(j, key) ==
    upper_bound_search(j, begin(j), end(j) - begin(j), key)

lower_bound(j, key) ==
    lower_bound_search(j, begin(j), end(j) - begin(j), key)

\* as upper_bound, the first record whose position is not less than the key
upper_bound_not_less(j, key) ==
    lower_bound_search(j, begin(j), end(j) - begin(j), key)

upper_bound(j, key) ==
    upper_bound_search(j, begin(j), end(j) - begin(j), key)

\* std::ranges::find with the projection position: the first record in
\* [begin(), end()) whose position equals the key, end() if there is none
find(j, key) ==
    IF \E it \in begin(j)..(end(j) - 1) : j[it].position = key
        THEN CHOOSE it \in begin(j)..(end(j) - 1) :
                /\ j[it].position = key
                /\ \A before \in begin(j)..(it - 1) : j[before].position # key
        ELSE end(j)

\* the keys the lookups are called with
Keys == 0..(MaxDerivedLen + 1)

\* the call of a lookup with its key and the returned iterator
LookupCall(op, key, ret) == [op |-> op, key |-> key, ret |-> ret, net |-> call.net]

\* a lookup follows the construction, a record call or clear
Lookup(op, key, ret) ==
    /\ call.op \in {"new", "record", "clear"}
    /\ call' = LookupCall(op, key, ret)
    /\ UNCHANGED <<source, journal>>
    /\ UNCHANGED tvars

\* lower_bound(key)
LowerBound == \E key \in Keys : Lookup("lower_bound", key, lower_bound(journal, key))

\* upper_bound(key)
UpperBound == \E key \in Keys : Lookup("upper_bound", key, upper_bound(journal, key))

\* find(key)
Find == \E key \in Keys : Lookup("find", key, find(journal, key))

\* clear() when the last call was not a lookup
ClearBefore == call.op \in {"new", "record", "clear"} /\ Clear

NextLookup == RecordBefore \/ ClearBefore \/ LowerBound \/ UpperBound \/ Find

\* the journal under record and clear calls, then one lookup
SpecLookup == Init /\ [][NextLookup]_vars

----------------------------------------------------------------------------
(* Properties of the journal: source, size, lookup, breakends *)

(* C14: no operation of the journal (record, clear, lower_bound,           *)
(* upper_bound, find) changes the source sequence.                         *)
C14_SourceUnchanged ==
    [][source' = source]_vars

\* a lookup after edits that changed the derived sequence of a non-empty source
C14_Witness ==
    /\ call.op \in {"lower_bound", "upper_bound", "find"}
    /\ source # <<>>
    /\ Derived(journal) # source

(* C15: size() is the number of records other than the sentinel, empty()   *)
(* holds iff size() = 0, and [begin(), end()) visits exactly those size()  *)
(* records and never the sentinel.                                         *)
C15_SizeAndRange ==
    LET range == begin(journal)..(end(journal) - 1)
    IN  /\ size(journal) = Cardinality({ it \in 1..Len(journal) : it # Len(journal) })
        /\ empty(journal) <=> size(journal) = 0
        /\ empty(journal) <=> range = {}
        /\ Cardinality(range) = size(journal)
        /\ range = (1..Len(journal)) \ {Len(journal)}
        /\ end(journal) = Len(journal)

\* a journal of three records and the sentinel
C15_Witness ==
    /\ call.op = "record"
    /\ size(journal) = 3
    /\ ~ empty(journal)

(* C16: in a non-empty journal, find(k) with 0 <= k < |derived sequence|   *)
(* returns the entry containing k: pos <= k < pos + |seg|.                 *)
C16_FindContaining ==
    (call.op = "find" /\ ~ empty(journal) /\ call.key < Len(Derived(journal))) =>
        /\ call.ret \in begin(journal)..(end(journal) - 1)
        /\ journal[call.ret].position <= call.key
        /\ call.key < journal[call.ret].position + Len(journal[call.ret].sequence)

(* C17: lower_bound(k) returns the first entry before the sentinel whose   *)
(* start position is not less than k, and end() when there is none.        *)
C17_LowerBound ==
    call.op = "lower_bound" =>
        LET notLess == { it \in begin(journal)..(end(journal) - 1) :
                            journal[it].position >= call.key }
        IN  IF notLess = {}
                THEN call.ret = end(journal)
                ELSE /\ call.ret \in notLess
                     /\ \A it \in notLess : call.ret <= it

\* lower_bound has found an entry in the middle of a journal of several records
C17_Witness ==
    /\ call.op = "lower_bound"
    /\ size(journal) >= 3
    /\ call.ret > begin(journal)
    /\ call.ret < end(journal)
    /\ journal[call.ret].position > call.key

\* defaulted operator== of breakend_impl: both iterators are equal
breakend_equal(a, b) == a.rec = b.rec /\ a.off = b.off

\* defaulted operator<=> of breakend_impl: the journal iterators are compared,
\* and the sequence iterators only when the journal iterators are equal
breakend_less(a, b) == a.rec < b.rec \/ (a.rec = b.rec /\ a.off < b.off)

(* C18: two breakends of a journal compare as their linear offsets do:     *)
(* a < b iff offset(a) < offset(b), and a == b iff offset(a) = offset(b).  *)
C18_OrderedByOffset ==
    \A a \in Breakends(journal), b \in Breakends(journal) :
        /\ breakend_less(a, b) <=> ToOffset(journal, a) < ToOffset(journal, b)
        /\ breakend_equal(a, b) <=> ToOffset(journal, a) = ToOffset(journal, b)

----------------------------------------------------------------------------
(* Properties of the traverser *)

\* the traversal when the consumer's loop keeps applying ++it until end()
SpecTreeFair == InitTree /\ [][NextTree]_vars /\ WF_vars(NextTree)

(* C19: the traversal reaches end(); the handle equals end() only at a     *)
(* sink with no frame on the stack, and then the next step is end(); every *)
(* descent moves on to a later variant, so no variant is chosen twice on   *)
(* a path.                                                                 *)
C19_Terminates ==
    /\ <>(tpc = "end")
    /\ [](tpc = "end" => (is_sink(variants, node) /\ stack = <<>>))
    /\ [][(tpc = "walk" /\ is_sink(variants, node) /\ stack = <<>>) => tpc' = "end"]_vars
    /\ [][(tpc = "walk" /\ ~ is_sink(variants, node)) =>
            (tpc' = "walk" /\ node'.idx > node.idx)]_vars

\* a finished traversal that branched and ended on a narrowed coverage
C19_Witness ==
    /\ tpc = "end"
    /\ Len(visited) >= 3
    /\ node.cov # AllSeqs
    /\ stack = <<>>

RECURSIVE Preorder(_, _, _, _)
\* the subtree of n in depth-first order: n, the subtree of its reference
\* child, then the subtree of its alternate child
Preorder(S, V, k, n) ==
    <<n>>
        \o (IF has_reference_child(V, n)
                THEN Preorder(S, V, k, reference_child(S, V, k, n)) ELSE <<>>)
        \o (IF has_alternate_child(V, n)
                THEN Preorder(S, V, k, alternate_child(S, V, k, n)) ELSE <<>>)

\* n is a child of m
IsChild(S, V, k, n, m) ==
    \/ has_reference_child(V, m) /\ n = reference_child(S, V, k, m)
    \/ has_alternate_child(V, m) /\ n = alternate_child(S, V, k, m)

----------------------------------------------------------------------------
(* Boundary behaviour of the window size *)

\* every sequence of the collection is defined and shorter than the window
WindowTooLarge ==
    /\ tpc # "idle"
    /\ \A i \in AllSeqs :
          /\ ConflictFree(variants, i)
          /\ Len(sequence_at(reference, variants, i)) < window

(* C22: if the window size is larger than every derived sequence, the      *)
(* traversal emits nothing and reaches end().                              *)
C22_TooLargeContext ==
    <>(tpc = "end" /\ (emitted = <<>> \/ ~WindowTooLarge))

\* a traversal over a variant has ended without a window, the sequences too short
C22_Witness ==
    /\ WindowTooLarge
    /\ tpc = "end"
    /\ emitted = <<>>
    /\ Len(variants) >= 1
    /\ Len(visited) >= 3
    /\ \E i \in AllSeqs : Len(sequence_at(reference, variants, i)) >= 1

\* every sequence of the collection is defined and as long as the window
WindowEqual ==
    /\ tpc # "idle"
    /\ \A i \in AllSeqs :
          /\ ConflictFree(variants, i)
          /\ Len(sequence_at(reference, variants, i)) = window

----------------------------------------------------------------------------
(* Partitioned traversal (section 5): the source is split into disjoint    *)
(* windows and every partition is traversed by a traverser of its own      *)

RECURSIVE EmitNodes(_, _, _, _)
\* the emissions after the handle has arrived at the first m of the nodes
EmitNodes(out, nodes, m, k) ==
    IF m = 0
        THEN out
        ELSE CHOOSE r \in { Emit(o, nodes[m], k) : o \in { EmitNodes(out, nodes, m - 1, k) } } : TRUE

\* the cargos a traverser emits on the tree of S and V with window size k
Traverse(S, V, k) ==
    LET order == Preorder(S, V, k, root(S, V))
    IN  EmitNodes(<<>>, order, Len(order), k)

\* no variant of V reaches over the position cut
SplitsAt(V, cut) == \A v \in 1..Len(V) : V[v].hi <= cut \/ V[v].lo >= cut

\* the variants of V on S[0, cut): they end at or before cut, insertions at cut left out
VariantsBefore(V, cut) ==
    SelectSeq(V, LAMBDA v : v.hi <= cut /\ ~ (v.lo >= cut))

\* the variants of V on S[cut, |S|), in the coordinates of that partition
VariantsFrom(V, cut) ==
    LET W == SelectSeq(V, LAMBDA v : v.lo >= cut)
    IN  [i \in 1..Len(W) |-> Variant(W[i].lo - cut, W[i].hi - cut, W[i].alt, W[i].cov)]

\* how often the window with these bytes and this coverage is among the cargos
CountOf(cargos, bytes, cov) ==
    Cardinality({ e \in 1..Len(cargos) :
                    cargos[e].sequence = bytes /\ cargos[e].coverage = cov })

----------------------------------------------------------------------------
(* The fixture substitution_overlapping *)

\* the traversal of the fixture on a reference of n symbols has ended, k = 2,
\* both events on the first sequence only
OverlappingDone(n) ==
    /\ tpc = "end"
    /\ Len(reference) = n
    /\ variants = substitution_overlapping({1}, {1})
    /\ window = 2

(* C25 as stated: for S = aaaaaa, k = 2 and the substitutions b at 0 and c *)
(* at 2 on the first sequence, exactly 7 windows are emitted: ba, ac, ca   *)
(* and aa for single sequences, and aa three times for all sequences.      *)
C25_SevenWindowsOfSix ==
    OverlappingDone(6) =>
        /\ Len(emitted) = 7
        /\ CountOf(emitted, <<2, 1>>, {1}) = 1
        /\ CountOf(emitted, <<1, 3>>, {1}) = 1
        /\ CountOf(emitted, <<3, 1>>, {1}) = 1
        /\ CountOf(emitted, <<1, 1>>, AllSeqs \ {1}) = 1
        /\ CountOf(emitted, <<1, 1>>, AllSeqs) = 3

(* C25, amended: for S = aaaaa, k = 2 and the substitutions b at 0 and c   *)
(* at 2 on the first sequence, exactly 7 windows are emitted: ba, ac, ca   *)
(* for the first sequence, aa three times for the other sequences, and aa  *)
(* once for all sequences.                                                 *)
C25_SevenWindowsOfFive ==
    OverlappingDone(5) =>
        /\ Len(emitted) = 7
        /\ CountOf(emitted, <<2, 1>>, {1}) = 1
        /\ CountOf(emitted, <<1, 3>>, {1}) = 1
        /\ CountOf(emitted, <<3, 1>>, {1}) = 1
        /\ CountOf(emitted, <<1, 1>>, AllSeqs \ {1}) = 3
        /\ CountOf(emitted, <<1, 1>>, AllSeqs) = 1

\* the traversal of the fixture as the test states it has ended
C25_Witness ==
    /\ OverlappingDone(5)
    /\ Len(emitted) = 7
    /\ \E e \in 1..Len(emitted) : emitted[e].coverage = AllSeqs

----------------------------------------------------------------------------
(* Construction of the tree *)

RECURSIVE ApplyFrom(_, _, _, _, _)
(* the bytes of S from position pos on with the events n, n+1, .. of V     *)
(* applied that are on sequence i: the reference up to the event, its alt, *)
(* and on from its high breakend                                            *)
ApplyFrom(S, V, i, n, pos) ==
    IF n > Len(V)
        THEN SubSeq(S, pos + 1, Len(S))
        ELSE IF i \in V[n].cov
            THEN SubSeq(S, pos + 1, V[n].lo) \o V[n].alt \o ApplyFrom(S, V, i, n + 1, V[n].hi)
            ELSE ApplyFrom(S, V, i, n + 1, pos)

C28_CanonicalStore ==
    /\ \A i, j \in 1..Len(variants) :
          i < j => /\ ~ CanonicalLess(variants[j], variants[i])
                   /\ variants[i] # variants[j]
    /\ call.op = "insert" /\ (\E i \in 1..Len(call.before) : call.before[i] = call.event)
          => variants = call.before

\* a store of two events in strict canonical order into which one of its
\* own events was inserted again
C28_Witness ==
    /\ call.op = "insert"
    /\ Len(call.before) = 2
    /\ \E i \in 1..Len(call.before) : call.before[i] = call.event
    /\ CanonicalLess(variants[1], variants[2])

\* m is what the reference edge out of n leads to: the next variant, the
\* reference from the position of n on
IsRefNode(S, V, k, m, n) ==
    /\ ~ is_sink(V, n)
    /\ m.idx = n.idx + 1
    /\ m.ctx = ChildContext(n, k)
    /\ m.label = RefSlice(S, n.pos, m.pos)

\* m is what the alternate edge out of n leads to: alt(v), then the
\* reference from hi(v) on
IsAltNode(S, V, k, m, n) ==
    /\ ~ is_sink(V, n)
    /\ m.idx > n.idx
    /\ m.pos >= V[n.idx].hi
    /\ m.ctx = ChildContext(n, k)
    /\ m.label = AltLabel(V, n.idx) \o RefSlice(S, V[n.idx].hi, m.pos)

(* C29: when the traverser leaves a node with path coverage c that         *)
(* branches on variant v, an alternate child is descended or remembered    *)
(* iff c and cov(v) share a sequence, and its coverage is their            *)
(* intersection; the coverage never grows on the way down, and no node and *)
(* no emission has an empty coverage.                                      *)
C29_AlternateEdge ==
    [][ (tpc = "walk" /\ tpc' = "walk") =>
          /\ node'.cov # {}
          /\ \A e \in 1..Len(emitted') : emitted'[e].coverage # {}
          /\ ~ is_sink(variants, node) =>
                LET c == node.cov
                    x == node.cov \cap variants[node.idx].cov
                    alt == IF Len(stack') > Len(stack)
                              THEN { stack'[Len(stack')] }
                              ELSE { m \in { node' } :
                                       IsAltNode(reference, variants, window, m, node) }
                IN  /\ (alt # {}) <=> (x # {})
                    /\ \A m \in alt :
                          /\ IsAltNode(reference, variants, window, m, node)
                          /\ m.cov = x
                    /\ node'.cov \subseteq c
      ]_vars

\* a finished traversal that found an alternate edge absent at one node and
\* descended an alternate edge with a narrowed coverage at another
C29_Witness ==
    /\ tpc = "end"
    /\ \E i \in 1..Len(visited) :
          /\ ~ is_sink(variants, visited[i])
          /\ visited[i].cov \cap variants[visited[i].idx].cov = {}
    /\ \E j \in 1..Len(visited), t \in 1..Len(visited) :
          /\ IsAltNode(reference, variants, window, visited[j], visited[t])
          /\ visited[j].cov \subseteq visited[t].cov
          /\ visited[j].cov # visited[t].cov

\* visited[i..j] is a run of reference edges that all pass variants beginning
\* at the position of visited[i]
IsRefChain(S, V, k, nodes, i, j) ==
    /\ i < j
    /\ \A t \in i..(j - 1) :
          /\ IsRefNode(S, V, k, nodes[t + 1], nodes[t])
          /\ V[nodes[t].idx].lo = nodes[i].pos

(* C30: after the reference edges that pass the variants beginning at p,   *)
(* the coverage is the coverage c before them minus the union of the       *)
(* coverages of these variants; together with the alternate children put  *)
(* on the stack on the way it covers c, and it shares no sequence with any *)
(* of them.                                                                *)
C30_ReferenceEdge ==
    tpc = "walk" =>
        \A i \in 1..Len(visited) :
            IsRefChain(reference, variants, window, visited, i, Len(visited)) =>
                LET c == visited[i].cov
                    passed == (visited[i].idx)..(node.idx - 1)
                    taken == { t \in i..(Len(visited) - 1) :
                                 visited[t].cov \cap variants[visited[t].idx].cov # {} }
                    top == { f \in 1..Len(stack) : f > Len(stack) - Cardinality(taken) }
                    alts == { stack[f] : f \in top }
                IN  /\ node = visited[Len(visited)]
                    /\ \A x \in passed : variants[x].lo = visited[i].pos
                    /\ node.cov = c \ UNION { variants[x].cov : x \in passed }
                    /\ Cardinality(top) = Cardinality(taken)
                    /\ \A m \in alts : \E t \in i..(Len(visited) - 1) :
                          IsAltNode(reference, variants, window, m, visited[t])
                    /\ node.cov \cup UNION { m.cov : m \in alts } = c
                    /\ \A m \in alts : m.cov \cap node.cov = {}

\* the handle behind two reference edges that passed two variants beginning
\* at one position, with an alternate child remembered
C30_Witness ==
    /\ tpc = "walk"
    /\ Len(visited) >= 3
    /\ IsRefChain(reference, variants, window, visited, Len(visited) - 2, Len(visited))
    /\ stack # <<>>
    /\ node.cov # visited[Len(visited) - 2].cov

AltChildOfStep ==
    IF Len(stack') > Len(stack)
        THEN { stack'[Len(stack')] }
        ELSE { m \in { node' } : ~ IsRefNode(reference, variants, window, m, node) }

(* C31: the alternate child of variant v resumes on the reference at       *)
(* hi(v) and branches next on a variant that begins at or behind hi(v);    *)
(* every variant the path enters later comes later in the store, so no     *)
(* variant that begins before hi(v) is entered once v is taken.            *)
C31_NoOverlapOnPath ==
    [][ (tpc = "walk" /\ tpc' = "walk" /\ ~ is_sink(variants, node)) =>
          /\ node'.idx > node.idx
          /\ \A m \in AltChildOfStep :
                /\ m.idx > node.idx
                /\ m.pos >= variants[node.idx].hi
                /\ \A x \in 1..Len(variants) :
                      (x >= m.idx) => variants[x].lo >= variants[node.idx].hi
                /\ \A e \in 1..Len(m.label) :
                      \/ m.label[e].origin[1] = node.idx
                      \/ /\ m.label[e].origin[1] = 0
                         /\ m.label[e].origin[2] >= variants[node.idx].hi
      ]_vars

\* a finished traversal in which the alternate child of a deletion passed
\* over a variant that begins inside the deletion and shares a sequence with it
C31_Witness ==
    /\ tpc = "end"
    /\ Len(variants) = 2
    /\ variants[1].hi > variants[2].lo
    /\ variants[1].lo < variants[2].lo
    /\ variants[1].cov \cap variants[2].cov # {}
    /\ \E j \in 1..Len(visited) :
          /\ IsAltNode(reference, variants, window, visited[j], visited[1])
          /\ visited[j].idx = 3

\* the symbols of a label or coordinate that come from the alt of variant x
HasOrigin(origins, x) == \E e \in 1..Len(origins) : origins[e][1] = x

\* x and y are insertions at one position, x first, that share a sequence
NestedInsertions(V, x, y) ==
    /\ x < y
    /\ IsInsertion(V[x])
    /\ IsInsertion(V[y])
    /\ V[x].lo = V[y].lo
    /\ V[x].cov \cap V[y].cov # {}

----------------------------------------------------------------------------
(* Properties of the journal: frame, composition, keys, clear, positions *)

C37_ClearRestores ==
    [][ call'.op = "clear" =>
          /\ source' = source
          /\ Derived(journal') = source
          /\ journal' = IF source = <<>>
                            THEN << record_impl(0, <<>>) >>
                            ELSE << record_impl(0, source), record_impl(Len(source), <<>>) >>
          /\ Last(journal').position = Len(source)
      ]_vars

\* a journal over the longest source, just cleared
C37_Witness ==
    /\ call.op = "clear"
    /\ Len(source) = MaxSourceLen
    /\ size(journal) = 1
    /\ Derived(journal) = source

\* marked_insert_entries of the record call c: the prefix of the low record
\* if it is not empty, and the record of the new sequence if it is not empty
MarkedInsertEntries(c) ==
    (IF c.low.off > 0 THEN 1 ELSE 0) + (IF c.sequence # <<>> THEN 1 ELSE 0)

\* the records [from_journal_it, to_journal_it) that the record call c erases
ErasedEntries(c) == c.high.rec - c.low.rec

(* C32: record(bp, alt) leaves every record before the record of the low   *)
(* breakend as it is; every record behind the record of the high breakend  *)
(* keeps its segment and has |alt| - span(bp) added to its position, the   *)
(* sentinel included; with |alt| = span(bp) these positions do not change. *)
C32_RecordFrame ==
    [][ call'.op = "record" =>
          LET shift == MarkedInsertEntries(call') - ErasedEntries(call')
              offset == Len(call'.sequence) - (call'.hi - call'.lo)
          IN  /\ Len(journal') = Len(journal) + shift
              /\ \A i \in 1..(call'.low.rec - 1) : journal'[i] = journal[i]
              /\ \A i \in (call'.high.rec + 1)..Len(journal) :
                    /\ journal'[i + shift].sequence = journal[i].sequence
                    /\ journal'[i + shift].position = journal[i].position + offset
                    /\ offset = 0 => journal'[i + shift] = journal[i]
      ]_vars

\* a record call that changed the length, with a record before the low
\* record and a record other than the sentinel behind the high record
C32_Witness ==
    /\ call.op = "record"
    /\ call.low.rec >= 2
    /\ Len(call.sequence) # call.hi - call.lo
    /\ call.high.rec + 2
          <= Len(journal) - (MarkedInsertEntries(call) - ErasedEntries(call))

(* C33: one record call composes at most two records, the non-empty prefix *)
(* of the low record and the record of a non-empty alt at the offset of    *)
(* the low breakend, and puts them in the place of the records from the    *)
(* low record up to but excluding the high record: size() changes by the   *)
(* number composed minus the number replaced, and grows by at most 2.      *)
C33_RecordComposes ==
    [][ call'.op = "record" =>
          LET composed == MarkedInsertEntries(call')
              replaced == ErasedEntries(call')
              first == call'.low.rec
              P == Take(journal[first].sequence, call'.low.off)
          IN  /\ composed <= 2
              /\ size(journal') = size(journal) - replaced + composed
              /\ size(journal') <= size(journal) + 2
              /\ P # <<>> => journal'[first] = record_impl(journal[first].position, P)
              /\ call'.sequence # <<>> =>
                    journal'[first + composed - 1] = record_impl(call'.lo, call'.sequence)
              /\ \A i \in first..(first + composed - 1) :
                    \/ P # <<>> /\ i = first
                    \/ call'.sequence # <<>> /\ i = first + composed - 1
              /\ journal'[first + composed].sequence
                    = Drop(journal[call'.high.rec].sequence, call'.high.off)
      ]_vars

\* a record call that composed two records and replaced two
C33_Witness ==
    /\ call.op = "record"
    /\ MarkedInsertEntries(call) = 2
    /\ ErasedEntries(call) = 2

(* C34: upper_bound(k) with 0 <= k < |derived sequence| returns the first  *)
(* record before the sentinel whose position is greater than k, end() if   *)
(* there is none, and the record before the returned one contains k.       *)
C34_UpperBound ==
    (call.op = "upper_bound" /\ call.key < Len(Derived(journal))) =>
        LET greater == { it \in begin(journal)..(end(journal) - 1) :
                            journal[it].position > call.key }
        IN  /\ IF greater = {}
                  THEN call.ret = end(journal)
                  ELSE /\ call.ret \in greater
                       /\ \A it \in greater : call.ret <= it
            /\ call.ret > begin(journal)
            /\ journal[call.ret - 1].position <= call.key
            /\ call.key < journal[call.ret - 1].position
                              + Len(journal[call.ret - 1].sequence)

\* upper_bound of a key inside a record that begins before the key, in the
\* middle of a journal of several records
C34_Witness ==
    /\ call.op = "upper_bound"
    /\ size(journal) >= 3
    /\ call.ret < end(journal)
    /\ call.ret > begin(journal) + 1
    /\ journal[call.ret - 1].position < call.key

(* C39: every record whose position record(bp, alt) rewrites started at or *)
(* behind hi(bp) >= span(bp), so the position computed in size_type is the *)
(* exact sum pos + |alt| - span(bp) >= 0, and every position of the        *)
(* journal lies between 0 and the position of the sentinel.                *)
C39_NoUnderflow ==
    [][ call'.op = "record" =>
          LET composed == MarkedInsertEntries(call')
              shift == composed - ErasedEntries(call')
              offset == Len(call'.sequence) - (call'.hi - call'.lo)
              first == call'.low.rec + composed
          IN  /\ call'.hi >= call'.hi - call'.lo
              /\ \A i \in first..Len(journal') :
                    LET old == IF i = first THEN call'.hi ELSE journal[i - shift].position
                    IN  /\ old >= call'.hi
                        /\ old + offset >= 0
                        /\ journal'[i].position = old + offset
              /\ \A i \in 1..Len(journal') :
                    /\ journal'[i].position >= 0
                    /\ journal'[i].position <= Last(journal').position
      ]_vars

\* a record call behind the begin of the sequence that removed more than it
\* put in and rewrote the position of a record before the sentinel
C39_Witness ==
    /\ call.op = "record"
    /\ call.lo > 0
    /\ Len(call.sequence) < call.hi - call.lo
    /\ call.low.rec + MarkedInsertEntries(call) < Len(journal)

\* what record(bp, alt) makes of j: the offsets the breakends of bp denote,
\* the derived sequence of the journal it yields, and whether that journal
\* passes check_journal_invariants
RecordOutcome(j, bp, alt) ==
    LET recorded == record_inline(j, bp, alt)
    IN  [lo |-> ToOffset(j, bp[1]), hi |-> ToOffset(j, bp[2]),
         derived |-> Derived(recorded),
         kept |-> check_journal_invariants(recorded)]

====
